---- MODULE Spec2Model ----
(***************************************************************************)
(* Model of the pagination engine of build_books.py                        *)
(* (parse_paragraphs output -> build_pages_from_paragraphs) and of the     *)
(* book driver main().                                                     *)
(*                                                                         *)
(* Text is modelled as run-length encoded strings: a string is a sequence  *)
(* of runs [c |-> character, n |-> repeat count], adjacent runs having     *)
(* different characters.  len, join, split, strip and startswith are       *)
(* computed on that encoding exactly as Python computes them on the        *)
(* characters, so the program constants 1000 and 450 keep their values.    *)
(***************************************************************************)
EXTENDS Integers, Sequences, FiniteSets, TLC

\* src/build_books.py:10
TARGET_CHARS_PER_PAGE == 1000

\* src/build_books.py:14
MIN_CHARS_PER_PAGE == 450

\* Longest input sequence (paragraphs and markers) handed to the Packer.
MaxParas == 4

-----------------------------------------------------------------------------
(* Strings *)

NL == "\n"
SP == " "
CR == "\r"

Run(ch, k) == [c |-> ch, n |-> k]

\* str.isspace() for the characters of the model's alphabet
IsSpace(ch) == ch \in {SP, NL, CR}

\* len(s)
RECURSIVE StrLen(_)
StrLen(s) == IF s = <<>> THEN 0 ELSE Head(s).n + StrLen(Tail(s))

\* a + b
Cat(a, b) ==
    IF a = <<>> THEN b
    ELSE IF b = <<>> THEN a
    ELSE IF a[Len(a)].c = Head(b).c
         THEN SubSeq(a, 1, Len(a) - 1)
                \o <<Run(Head(b).c, a[Len(a)].n + Head(b).n)>>
                \o Tail(b)
         ELSE a \o b

\* the separator "\n\n"
BlankLine == <<Run(NL, 2)>>

\* "\n\n".join(parts)
RECURSIVE JoinBlank(_)
JoinBlank(parts) ==
    IF parts = <<>> THEN <<>>
    ELSE IF Len(parts) = 1 THEN parts[1]
    ELSE Cat(Cat(parts[1], BlankLine), JoinBlank(Tail(parts)))

\* k empty strings
EmptyStrings(k) == [j \in 1..k |-> <<>>]

\* s.split("\n\n"): left-to-right, non-overlapping; a run of k newlines holds
\* k \div 2 separators and leaves k % 2 newlines at the head of the next piece.
\* acc is the piece being collected.
RECURSIVE SplitFrom(_, _)
SplitFrom(s, acc) ==
    IF s = <<>> THEN <<acc>>
    ELSE LET r == Head(s) IN
         IF r.c = NL /\ r.n >= 2
         THEN <<acc>> \o EmptyStrings((r.n \div 2) - 1)
                \o SplitFrom(Tail(s), IF r.n % 2 = 1 THEN <<Run(NL, 1)>> ELSE <<>>)
         ELSE SplitFrom(Tail(s), Cat(acc, <<r>>))

SplitBlank(s) == SplitFrom(s, <<>>)

\* s.lstrip()
RECURSIVE LStrip(_)
LStrip(s) ==
    IF s = <<>> THEN <<>>
    ELSE IF IsSpace(Head(s).c) THEN LStrip(Tail(s))
    ELSE s

\* s.rstrip()
RECURSIVE RStrip(_)
RStrip(s) ==
    IF s = <<>> THEN <<>>
    ELSE IF IsSpace(s[Len(s)].c) THEN RStrip(SubSeq(s, 1, Len(s) - 1))
    ELSE s

\* s.strip()
Strip(s) == RStrip(LStrip(s))

\* s.startswith("# ")
StartsWithHashSpace(s) ==
    /\ Len(s) >= 2
    /\ s[1] = Run("#", 1)
    /\ s[2].c = SP

\* para.lstrip().startswith("# ")
IsHeading(para) == StartsWithHashSpace(LStrip(para))

\* the token "__PAGE_BREAK__"
PAGE_BREAK ==
    << Run("_", 2), Run("P", 1), Run("A", 1), Run("G", 1), Run("E", 1),
       Run("_", 1), Run("B", 1), Run("R", 1), Run("E", 1), Run("A", 1),
       Run("K", 1), Run("_", 2) >>

-----------------------------------------------------------------------------
(* Inputs: elements parse_paragraphs can emit *)

\* an ordinary one-line paragraph of k characters
Body(k) == <<Run("x", k)>>

\* the heading "# x"
ShortHeading == <<Run("#", 1), Run(SP, 1), Run("x", 1)>>

\* the two-line paragraph "#x\n# x": not a heading, although its second
\* line starts with the heading marker
TwoLines == <<Run("#", 1), Run("x", 1), Run(NL, 1), Run("#", 1), Run(SP, 1), Run("x", 1)>>

Elements ==
    { PAGE_BREAK, ShortHeading, TwoLines,
      Body(MIN_CHARS_PER_PAGE - 1),
      Body(MIN_CHARS_PER_PAGE),
      Body(TARGET_CHARS_PER_PAGE - MIN_CHARS_PER_PAGE),
      Body(TARGET_CHARS_PER_PAGE - MIN_CHARS_PER_PAGE + 1),
      Body(TARGET_CHARS_PER_PAGE + 1) }

Inputs == UNION { [1..k -> Elements] : k \in 0..MaxParas }

-----------------------------------------------------------------------------
(* build_pages_from_paragraphs: the Packer *)

VARIABLES
    paragraphs,     \* the argument of build_pages_from_paragraphs
    pos,            \* 1-based position of the `for para in paragraphs` loop
    pages,          \* completed pages (strings)
    current,        \* paragraphs of the page under construction
    current_len,    \* sum of their lengths
    i,              \* cursor of the repair loop
    pc,             \* "pack", "repair" or "done"
    initial_pages,  \* len(pages) when the repair loop starts
    iterations,     \* iterations of the repair loop so far
    books_root,     \* whether the Books folder exists
    listing,        \* os.listdir(BOOKS_ROOT): the entries, in listing order
    name_pos,       \* 1-based position of the `for name in ...` loop of main
    books_meta,     \* the records main has collected
    books_json,     \* books.json: whether main wrote it, and the records in it
    page_files,     \* per entry: the pages directory, page number -> page{n}.html
    main_pc,        \* "idle", "loop", "done" or "crashed"
    refs_root,      \* build_codex_refs: whether BOOKS_DIR exists
    scan_dirs,      \* BOOKS_DIR.iterdir(): the entries, in iteration order
    scan_pos,       \* 1-based position of the `for book_dir in ...` loop
    refs,           \* codex id -> list of occurrence records
    refs_json,      \* references.json: whether it was written, and its content
    refs_pc,        \* "idle", "loop", "done" or "crashed"
    raw_lines,      \* parse_paragraphs: text.split("\n")
    line_pos,       \* 1-based position of the `for raw_line in ...` loop
    parsed,         \* the list `paragraphs` parse_paragraphs builds
    current_lines,  \* lines of the paragraph under construction
    parse_pc        \* "idle", "loop" or "done"

pagerVars == <<paragraphs, pos, pages, current, current_len, i, pc,
               initial_pages, iterations>>

driverVars == <<books_root, listing, name_pos, books_meta, books_json,
                page_files, main_pc>>

refsVars == <<refs_root, scan_dirs, scan_pos, refs, refs_json, refs_pc>>

parseVars == <<raw_lines, line_pos, parsed, current_lines, parse_pc>>

vars == <<pagerVars, driverVars, refsVars, parseVars>>

\* the Packer's local state as a record
Packer(pg, cur, cl) == [pages |-> pg, current |-> cur, current_len |-> cl]

PackerInit == Packer(<<>>, <<>>, 0)

\* pages[-1] = v
SetLast(pg, v) == [pg EXCEPT ![Len(pg)] = v]

\* StepBreak closing the pending page only when it is long enough
StepBreakSizeChecked(s) ==
    IF s.current # <<>> /\ s.current_len >= MIN_CHARS_PER_PAGE
    THEN Packer(Append(s.pages, JoinBlank(s.current)), <<>>, 0)
    ELSE s

\* StepBreak without the `if current` test
StepBreakUnguarded(s) ==
    Packer(Append(s.pages, JoinBlank(s.current)), <<>>, 0)

\* lines 135-140: para == "__PAGE_BREAK__"
StepBreak(s) ==
    IF s.current # <<>>
    THEN Packer(Append(s.pages, JoinBlank(s.current)), <<>>, 0)
    ELSE s

\* FinalizeBeforeHeading that never merges the pending page back
FinalizeBeforeHeadingNoMerge(s) ==
    IF s.current # <<>>
    THEN Packer(Append(s.pages, JoinBlank(s.current)), <<>>, 0)
    ELSE s

\* FinalizeBeforeHeading comparing with <= instead of <
FinalizeBeforeHeadingInclusive(s) ==
    IF s.current # <<>>
    THEN IF Len(s.pages) > 0 /\ s.current_len <= MIN_CHARS_PER_PAGE
         THEN Packer(SetLast(s.pages,
                             JoinBlank(<<s.pages[Len(s.pages)], JoinBlank(s.current)>>)),
                     <<>>, 0)
         ELSE Packer(Append(s.pages, JoinBlank(s.current)), <<>>, 0)
    ELSE s

\* FinalizeBeforeHeading whose orphan branch overwrites pages[-1]
FinalizeBeforeHeadingOverwrite(s) ==
    IF s.current # <<>>
    THEN IF Len(s.pages) > 0 /\ s.current_len < MIN_CHARS_PER_PAGE
         THEN Packer(SetLast(s.pages, JoinBlank(s.current)), <<>>, 0)
         ELSE Packer(Append(s.pages, JoinBlank(s.current)), <<>>, 0)
    ELSE s

\* lines 147-155: finalize the pending page before a heading
FinalizeBeforeHeading(s) ==
    IF s.current # <<>>
    THEN IF Len(s.pages) > 0 /\ s.current_len < MIN_CHARS_PER_PAGE
         THEN Packer(SetLast(s.pages,
                             JoinBlank(<<s.pages[Len(s.pages)], JoinBlank(s.current)>>)),
                     <<>>, 0)
         ELSE Packer(Append(s.pages, JoinBlank(s.current)), <<>>, 0)
    ELSE s

\* lines 144-160: is_heading
StepHeading(s, para) ==
    LET f == FinalizeBeforeHeading(s)
    IN  Packer(f.pages, Append(f.current, para), StrLen(para))

\* StepNormal comparing with >= instead of >
StepNormalInclusive(s, para) ==
    LET para_len == StrLen(para) IN
    IF s.current # <<>> /\ s.current_len + para_len >= TARGET_CHARS_PER_PAGE
    THEN Packer(Append(s.pages, JoinBlank(s.current)), <<para>>, para_len)
    ELSE Packer(s.pages, Append(s.current, para), s.current_len + para_len)

\* StepNormal comparing the pending length alone with the budget
StepNormalNoAdd(s, para) ==
    LET para_len == StrLen(para) IN
    IF s.current # <<>> /\ s.current_len > TARGET_CHARS_PER_PAGE
    THEN Packer(Append(s.pages, JoinBlank(s.current)), <<para>>, para_len)
    ELSE Packer(s.pages, Append(s.current, para), s.current_len + para_len)

\* lines 162-171: normal paragraph
StepNormal(s, para) ==
    LET para_len == StrLen(para) IN
    IF s.current # <<>> /\ s.current_len + para_len > TARGET_CHARS_PER_PAGE
    THEN Packer(Append(s.pages, JoinBlank(s.current)), <<para>>, para_len)
    ELSE Packer(s.pages, Append(s.current, para), s.current_len + para_len)

\* StepFlush without the `if current` test
StepFlushUnguarded(s) ==
    Packer(Append(s.pages, JoinBlank(s.current)), s.current, s.current_len)

\* lines 173-174: flush after the loop
StepFlush(s) ==
    IF s.current # <<>>
    THEN Packer(Append(s.pages, JoinBlank(s.current)), s.current, s.current_len)
    ELSE s

-----------------------------------------------------------------------------
(* build_pages_from_paragraphs: the repair loop *)

\* line 179: [b for b in pages[i].split("\n\n") if b.strip()]
Blocks(page) == SelectSeq(SplitBlank(page), LAMBDA b : Strip(b) # <<>>)

\* line 180
HeadingOnly(page) ==
    LET blocks == Blocks(page)
    IN  Len(blocks) = 1 /\ IsHeading(blocks[1])

\* del pg[k]
DeleteAt(pg, k) == SubSeq(pg, 1, k - 1) \o SubSeq(pg, k + 1, Len(pg))

\* loop condition that stops one page early
RepairCondShort(pg, k) == k < Len(pg) - 2

\* line 178: while i < len(pages) - 1
RepairCond(pg, k) == k < Len(pg) - 1

\* merge that forgets `del pages[i + 1]`
MergeWithoutDelete(pg, k) ==
    [pg EXCEPT ![k] = Cat(Cat(pg[k], BlankLine), pg[k + 1])]

\* lines 182-183, with the 1-based index k = i + 1
MergeWithNext(pg, k) ==
    DeleteAt([pg EXCEPT ![k] = Cat(Cat(pg[k], BlankLine), pg[k + 1])], k + 1)

-----------------------------------------------------------------------------
(* Actions *)

S == Packer(pages, current, current_len)

Assign(s) ==
    /\ pages' = s.pages
    /\ current' = s.current
    /\ current_len' = s.current_len

\* books.json before main has written it
NotWritten == [written |-> FALSE, records |-> <<>>]

\* a book folder without a pages directory
NoDir == [exists |-> FALSE, files |-> <<>>]

\* main() is not running
DriverIdle ==
    /\ books_root = FALSE
    /\ listing = <<>>
    /\ name_pos = 1
    /\ books_meta = <<>>
    /\ books_json = NotWritten
    /\ page_files = <<>>
    /\ main_pc = "idle"

\* build_codex_refs.main() is not running
RefsIdle ==
    /\ refs_root = FALSE
    /\ scan_dirs = <<>>
    /\ scan_pos = 1
    /\ refs = <<>>
    /\ refs_json = NotWritten
    /\ refs_pc = "idle"

\* parse_paragraphs is not running
ParseIdle ==
    /\ raw_lines = <<>>
    /\ line_pos = 1
    /\ parsed = <<>>
    /\ current_lines = <<>>
    /\ parse_pc = "idle"

Init ==
    /\ paragraphs \in Inputs
    /\ pos = 1
    /\ pages = <<>>
    /\ current = <<>>
    /\ current_len = 0
    /\ i = 0
    /\ pc = "pack"
    /\ initial_pages = 0
    /\ iterations = 0
    /\ DriverIdle
    /\ RefsIdle
    /\ ParseIdle

PackBreak ==
    /\ pc = "pack"
    /\ pos <= Len(paragraphs)
    /\ paragraphs[pos] = PAGE_BREAK
    /\ Assign(StepBreak(S))
    /\ pos' = pos + 1
    /\ UNCHANGED <<paragraphs, i, pc, initial_pages, iterations>>
    /\ UNCHANGED <<driverVars, refsVars, parseVars>>

PackHeading ==
    /\ pc = "pack"
    /\ pos <= Len(paragraphs)
    /\ paragraphs[pos] # PAGE_BREAK
    /\ IsHeading(paragraphs[pos])
    /\ Assign(StepHeading(S, paragraphs[pos]))
    /\ pos' = pos + 1
    /\ UNCHANGED <<paragraphs, i, pc, initial_pages, iterations>>
    /\ UNCHANGED <<driverVars, refsVars, parseVars>>

PackNormal ==
    /\ pc = "pack"
    /\ pos <= Len(paragraphs)
    /\ paragraphs[pos] # PAGE_BREAK
    /\ ~IsHeading(paragraphs[pos])
    /\ Assign(StepNormal(S, paragraphs[pos]))
    /\ pos' = pos + 1
    /\ UNCHANGED <<paragraphs, i, pc, initial_pages, iterations>>
    /\ UNCHANGED <<driverVars, refsVars, parseVars>>

\* lines 173-177: end of the for loop, flush, i = 0
PackFlush ==
    /\ pc = "pack"
    /\ pos > Len(paragraphs)
    /\ Assign(StepFlush(S))
    /\ i' = 0
    /\ pc' = "repair"
    /\ initial_pages' = Len(StepFlush(S).pages)
    /\ iterations' = 0
    /\ UNCHANGED <<paragraphs, pos>>
    /\ UNCHANGED <<driverVars, refsVars, parseVars>>

\* lines 178-185: page i holds a single heading
RepairMerge ==
    /\ pc = "repair"
    /\ RepairCond(pages, i)
    /\ HeadingOnly(pages[i + 1])
    /\ pages' = MergeWithNext(pages, i + 1)
    /\ iterations' = iterations + 1
    /\ UNCHANGED <<paragraphs, pos, current, current_len, i, pc, initial_pages>>
    /\ UNCHANGED <<driverVars, refsVars, parseVars>>

\* lines 178-180, 186
RepairAdvance ==
    /\ pc = "repair"
    /\ RepairCond(pages, i)
    /\ ~HeadingOnly(pages[i + 1])
    /\ i' = i + 1
    /\ iterations' = iterations + 1
    /\ UNCHANGED <<paragraphs, pos, pages, current, current_len, pc, initial_pages>>
    /\ UNCHANGED <<driverVars, refsVars, parseVars>>

\* lines 178, 188: loop condition false, return pages
RepairReturn ==
    /\ pc = "repair"
    /\ ~RepairCond(pages, i)
    /\ pc' = "done"
    /\ UNCHANGED <<paragraphs, pos, pages, current, current_len, i,
                   initial_pages, iterations>>
    /\ UNCHANGED <<driverVars, refsVars, parseVars>>

Next ==
    \/ PackBreak
    \/ PackHeading
    \/ PackNormal
    \/ PackFlush
    \/ RepairMerge
    \/ RepairAdvance
    \/ RepairReturn

Spec == Init /\ [][Next]_vars

-----------------------------------------------------------------------------
(* parse_paragraphs *)

\* the line "===PAGE==="
SENTINEL ==
    << Run("=", 3), Run("P", 1), Run("A", 1), Run("G", 1), Run("E", 1), Run("=", 3) >>

\* text.replace("\r\n", "\n")
RECURSIVE ReplaceCRLF(_)
ReplaceCRLF(s) ==
    IF Len(s) < 2 THEN s
    ELSE IF s[1].c = CR /\ s[2].c = NL
    THEN LET keptCR == IF s[1].n > 1 THEN <<Run(CR, s[1].n - 1)>> ELSE <<>>
             restNL == IF s[2].n > 1 THEN <<Run(NL, s[2].n - 1)>> ELSE <<>>
         IN  Cat(keptCR, Cat(<<Run(NL, 1)>>,
                             ReplaceCRLF(restNL \o SubSeq(s, 3, Len(s)))))
    ELSE Cat(<<Head(s)>>, ReplaceCRLF(Tail(s)))

\* text.split("\n"); acc is the line being collected
RECURSIVE SplitLinesFrom(_, _)
SplitLinesFrom(s, acc) ==
    IF s = <<>> THEN <<acc>>
    ELSE LET r == Head(s) IN
         IF r.c = NL
         THEN <<acc>> \o EmptyStrings(r.n - 1) \o SplitLinesFrom(Tail(s), <<>>)
         ELSE SplitLinesFrom(Tail(s), Cat(acc, <<r>>))

SplitLines(s) == SplitLinesFrom(s, <<>>)

\* raw_line.rstrip("\r")
RStripCR(line) ==
    IF line # <<>> /\ line[Len(line)].c = CR
    THEN SubSeq(line, 1, Len(line) - 1)
    ELSE line

\* "\n".join(parts)
RECURSIVE JoinNL(_)
JoinNL(parts) ==
    IF parts = <<>> THEN <<>>
    ELSE IF Len(parts) = 1 THEN parts[1]
    ELSE Cat(Cat(parts[1], <<Run(NL, 1)>>), JoinNL(Tail(parts)))

\* lines 93-95, 101-103, 107-108: flush current_lines as a paragraph
FlushLines(paras, cur) ==
    IF cur # <<>>
    THEN Append(paras, Strip(JoinNL(cur)))
    ELSE paras

\* lines 88-108: the loop over the lines and the final flush
RECURSIVE ParseLines(_, _, _)
ParseLines(lines, paras, cur) ==
    IF lines = <<>> THEN FlushLines(paras, cur)
    ELSE LET line == RStripCR(Head(lines)) IN
         IF Strip(line) = SENTINEL
         THEN ParseLines(Tail(lines),
                         Append(FlushLines(paras, cur), PAGE_BREAK), <<>>)
         ELSE IF Strip(line) = <<>>
         THEN ParseLines(Tail(lines), FlushLines(paras, cur), <<>>)
         ELSE ParseLines(Tail(lines), paras, Append(cur, line))

parse_paragraphs(text) == ParseLines(SplitLines(text), <<>>, <<>>)

-----------------------------------------------------------------------------
(* build_pages_from_paragraphs as a function of its argument *)

\* one iteration of the loop of lines 134-171
Step(s, para) ==
    IF para = PAGE_BREAK THEN StepBreak(s)
    ELSE IF IsHeading(para) THEN StepHeading(s, para)
    ELSE StepNormal(s, para)

RECURSIVE PackAll(_, _)
PackAll(s, seq) ==
    IF seq = <<>> THEN s ELSE PackAll(Step(s, Head(seq)), Tail(seq))

\* lines 177-186, from cursor k
RECURSIVE RepairFrom(_, _)
RepairFrom(pg, k) ==
    IF RepairCond(pg, k)
    THEN IF HeadingOnly(pg[k + 1])
         THEN RepairFrom(MergeWithNext(pg, k + 1), k)
         ELSE RepairFrom(pg, k + 1)
    ELSE pg

build_pages_from_paragraphs(seq) ==
    RepairFrom(StepFlush(PackAll(PackerInit, seq)).pages, 0)

-----------------------------------------------------------------------------
(* Book folders *)

\* Most entries of Books/ the model lists
MaxBooks == 3

NoManuscript == [present |-> FALSE, text |-> <<>>]
Manuscript(t) == [present |-> TRUE, text |-> t]

\* "# x\n\n" followed by 449 characters: one page
TextOnePage ==
    << Run("#", 1), Run(SP, 1), Run("x", 1), Run(NL, 2),
       Run("x", MIN_CHARS_PER_PAGE - 1) >>

\* 1001 characters, a sentinel line, 450 characters and a heading, with
\* \r\n line ends in places: three pages
TextThreePages ==
    << Run("x", TARGET_CHARS_PER_PAGE + 1), Run(CR, 1), Run(NL, 1) >>
      \o SENTINEL
      \o << Run(SP, 1), Run(CR, 1), Run(NL, 1),
            Run("x", MIN_CHARS_PER_PAGE), Run(NL, 3),
            Run("#", 1), Run(SP, 1), Run("x", 1), Run(NL, 1) >>

\* an entry of Books/: a plain file or a folder; its meta.json is missing,
\* not parseable as JSON, JSON that is not an object, or an object with or
\* without an "id" key; its manuscript.txt is missing or holds a text
Entry(d, m, hasId, ms) == [dir |-> d, meta |-> m, has_id |-> hasId, manuscript |-> ms]

Entries ==
    { Entry(FALSE, "missing", FALSE, NoManuscript),
      Entry(TRUE, "missing", FALSE, Manuscript(TextOnePage)),
      Entry(TRUE, "malformed", FALSE, Manuscript(TextOnePage)),
      Entry(TRUE, "notobject", FALSE, Manuscript(TextOnePage)) }
    \cup { Entry(TRUE, "ok", h, ms) :
             h \in BOOLEAN,
             ms \in {NoManuscript, Manuscript(TextOnePage), Manuscript(TextThreePages)} }

Listings == UNION { [1..k -> Entries] : k \in 0..MaxBooks }

-----------------------------------------------------------------------------
(* build_pages_for_book and main *)

\* lines 194-222: dirState is the pages directory of the book before the
\* call; the result is the directory after it and the returned page count.
\* A page file holds the text of its page as handed to block_to_html.
build_pages_for_book(entry, dirState) ==
    IF ~entry.manuscript.present
    THEN [dirState |-> [exists |-> TRUE, files |-> dirState.files], total |-> 0]
    ELSE LET text == ReplaceCRLF(entry.manuscript.text)
             raw_pages == build_pages_from_paragraphs(parse_paragraphs(text))
             written == 1..Len(raw_pages)
         IN  [dirState |->
                [exists |-> TRUE,
                 files |-> [n \in (DOMAIN dirState.files) \cup written |->
                              IF n \in written THEN raw_pages[n]
                              ELSE dirState.files[n]]],
              total |-> Len(raw_pages)]

\* lines 252-254: meta["id"], meta["path"], meta["totalPages"]; the folder
\* name (its position in the listing) stands for the path
MetaRecord(k, total) ==
    [id |-> IF listing[k].has_id THEN <<"id of meta.json", k>> ELSE <<"folder name", k>>,
     path |-> k,
     totalPages |-> total]

PagerIdle ==
    /\ paragraphs = <<>>
    /\ pos = 1
    /\ pages = <<>>
    /\ current = <<>>
    /\ current_len = 0
    /\ i = 0
    /\ pc = "idle"
    /\ initial_pages = 0
    /\ iterations = 0

MainInit ==
    /\ PagerIdle
    /\ RefsIdle
    /\ ParseIdle
    /\ \/ books_root = FALSE /\ listing = <<>>
       \/ books_root = TRUE /\ listing \in Listings
    /\ name_pos = 1
    /\ books_meta = <<>>
    /\ books_json = NotWritten
    /\ page_files = [k \in 1..Len(listing) |-> NoDir]
    /\ main_pc = "loop"

InLoop ==
    /\ main_pc = "loop"
    /\ books_root
    /\ name_pos <= Len(listing)

\* lines 231-233: no Books folder
MainNoRoot ==
    /\ main_pc = "loop"
    /\ ~books_root
    /\ main_pc' = "done"
    /\ UNCHANGED <<books_root, listing, name_pos, books_meta, books_json, page_files>>
    /\ UNCHANGED <<pagerVars, refsVars, parseVars>>

\* lines 236-238: not a directory
SkipNotDir ==
    /\ InLoop
    /\ ~listing[name_pos].dir
    /\ name_pos' = name_pos + 1
    /\ UNCHANGED <<books_root, listing, books_meta, books_json, page_files, main_pc>>
    /\ UNCHANGED <<pagerVars, refsVars, parseVars>>

\* SkipNoMeta without the `continue`: the folder is recorded all the same
SkipNoMetaRecorded ==
    /\ InLoop
    /\ listing[name_pos].dir
    /\ listing[name_pos].meta = "missing"
    /\ books_meta' = Append(books_meta, MetaRecord(name_pos, 0))
    /\ name_pos' = name_pos + 1
    /\ UNCHANGED <<books_root, listing, books_json, page_files, main_pc>>
    /\ UNCHANGED <<pagerVars, refsVars, parseVars>>

\* lines 243-245: no meta.json
SkipNoMeta ==
    /\ InLoop
    /\ listing[name_pos].dir
    /\ listing[name_pos].meta = "missing"
    /\ name_pos' = name_pos + 1
    /\ UNCHANGED <<books_root, listing, books_meta, books_json, page_files, main_pc>>
    /\ UNCHANGED <<pagerVars, refsVars, parseVars>>

\* lines 247-248: json.load raises; nothing in main catches it
LoadMetaRaises ==
    /\ InLoop
    /\ listing[name_pos].dir
    /\ listing[name_pos].meta = "malformed"
    /\ main_pc' = "crashed"
    /\ UNCHANGED <<books_root, listing, name_pos, books_meta, books_json, page_files>>
    /\ UNCHANGED <<pagerVars, refsVars, parseVars>>

\* lines 247-252: json.load returns a value without .get; the pages are
\* built, then meta.get raises
MetaGetRaises ==
    /\ InLoop
    /\ listing[name_pos].dir
    /\ listing[name_pos].meta = "notobject"
    /\ page_files' = [page_files EXCEPT ![name_pos] =
                        build_pages_for_book(listing[name_pos], @).dirState]
    /\ main_pc' = "crashed"
    /\ UNCHANGED <<books_root, listing, name_pos, books_meta, books_json>>
    /\ UNCHANGED <<pagerVars, refsVars, parseVars>>

\* lines 247-256: the book is built and its record collected
ProcessBook ==
    /\ InLoop
    /\ listing[name_pos].dir
    /\ listing[name_pos].meta = "ok"
    /\ LET built == build_pages_for_book(listing[name_pos], page_files[name_pos])
       IN  /\ page_files' = [page_files EXCEPT ![name_pos] = built.dirState]
           /\ books_meta' = Append(books_meta, MetaRecord(name_pos, built.total))
    /\ name_pos' = name_pos + 1
    /\ UNCHANGED <<books_root, listing, books_json, main_pc>>
    /\ UNCHANGED <<pagerVars, refsVars, parseVars>>

\* lines 258-261: after the loop, write books.json
WriteCatalog ==
    /\ main_pc = "loop"
    /\ books_root
    /\ name_pos > Len(listing)
    /\ books_json' = [written |-> TRUE, records |-> books_meta]
    /\ main_pc' = "done"
    /\ UNCHANGED <<books_root, listing, name_pos, books_meta, page_files>>
    /\ UNCHANGED <<pagerVars, refsVars, parseVars>>

MainNext ==
    \/ MainNoRoot
    \/ SkipNotDir
    \/ SkipNoMeta
    \/ LoadMetaRaises
    \/ MetaGetRaises
    \/ ProcessBook
    \/ WriteCatalog

SpecMain == MainInit /\ [][MainNext]_vars

-----------------------------------------------------------------------------
(* build_codex_refs.py *)

\* Most entries of Books/ the reference scanner lists
MaxScanDirs == 2

\* Titles, ids and file names are sequences of code points, compared as
\* Python compares strings.
RECURSIVE LexLess(_, _)
LexLess(a, b) ==
    IF b = <<>> THEN FALSE
    ELSE IF a = <<>> THEN TRUE
    ELSE IF Head(a) # Head(b) THEN Head(a) < Head(b)
    ELSE LexLess(Tail(a), Tail(b))

\* str.lower() on the letters A-Z
LowerChar(cp) == IF cp >= 65 /\ cp <= 90 THEN cp + 32 ELSE cp
Lower(str) == [j \in 1..Len(str) |-> LowerChar(str[j])]

IsDigit(cp) == cp >= 48 /\ cp <= 57

\* int() of a run of digits
RECURSIVE DigitsValue(_, _)
DigitsValue(digits, acc) ==
    IF digits = <<>> THEN acc
    ELSE DigitsValue(Tail(digits), 10 * acc + (Head(digits) - 48))

\* the value parse_page_number returns for None
NoPage == -1

\* lines 26-37: the first run of digits of the file's stem
parse_page_number(stem) ==
    IF \E j \in 1..Len(stem) : IsDigit(stem[j])
    THEN LET first == CHOOSE j \in 1..Len(stem) :
                         IsDigit(stem[j]) /\ \A h \in 1..(j - 1) : ~IsDigit(stem[h])
             last == CHOOSE j \in first..Len(stem) :
                         /\ \A h \in first..j : IsDigit(stem[h])
                         /\ (j = Len(stem) \/ ~IsDigit(stem[j + 1]))
         IN  DigitsValue(SubSeq(stem, first, last), 0)
    ELSE NoPage

\* the suffix ".html"
DotHtml == <<46, 104, 116, 109, 108>>

\* line 71: sorted(pages_dir.glob("*.html")): the files in file name order
RECURSIVE SortedFiles(_)
SortedFiles(fileSet) ==
    IF fileSet = {} THEN <<>>
    ELSE LET least == CHOOSE f \in fileSet :
                         \A g \in fileSet \ {f} : LexLess(f.stem \o DotHtml, g.stem \o DotHtml)
         IN  <<least>> \o SortedFiles(fileSet \ {least})

\* lines 87-91: refs.setdefault(codex_id, []).append(rec)
AppendRef(map, codex_id, rec) ==
    IF codex_id \in DOMAIN map
    THEN [map EXCEPT ![codex_id] = Append(@, rec)]
    ELSE [c \in (DOMAIN map) \cup {codex_id} |->
            IF c = codex_id THEN <<rec>> ELSE map[c]]

\* lines 82-91: the matches of one page, in text order; a match is the text
\* of group(1)
RECURSIVE ScanMatches(_, _, _, _, _)
ScanMatches(map, matches, book_id, book_title, page_num) ==
    IF matches = <<>> THEN map
    ELSE LET codex_id == Strip(Head(matches))
             rec == [bookId |-> book_id, bookTitle |-> book_title, page |-> page_num]
         IN  ScanMatches(IF codex_id = <<>> THEN map ELSE AppendRef(map, codex_id, rec),
                         Tail(matches), book_id, book_title, page_num)

\* lines 71-91: the page files of one book
RECURSIVE ScanFiles(_, _, _, _)
ScanFiles(map, files, book_id, book_title) ==
    IF files = <<>> THEN map
    ELSE LET page_num == parse_page_number(Head(files).stem)
         IN  ScanFiles(IF page_num = NoPage THEN map
                       ELSE ScanMatches(map, Head(files).matches, book_id, book_title, page_num),
                       Tail(files), book_id, book_title)

\* sort key that compares the titles as they are
RefKeyCaseSensitive(r) == <<r.bookTitle, r.page>>

\* line 95: key=lambda r: (r["bookTitle"].lower(), r["page"])
RefKey(r) == <<Lower(r.bookTitle), r.page>>

\* tuple comparison of two keys
KeyLess(a, b) == LexLess(a[1], b[1]) \/ (a[1] = b[1] /\ a[2] < b[2])

\* a stable sort: r goes behind every element whose key is not greater
RECURSIVE InsertByKey(_, _)
InsertByKey(sorted, r) ==
    IF sorted = <<>> THEN <<r>>
    ELSE IF KeyLess(RefKey(r), RefKey(Head(sorted)))
         THEN <<r>> \o sorted
         ELSE <<Head(sorted)>> \o InsertByKey(Tail(sorted), r)

\* line 95: lst.sort(key=...)
RECURSIVE SortRefs(_)
SortRefs(lst) ==
    IF lst = <<>> THEN <<>>
    ELSE InsertByKey(SortRefs(SubSeq(lst, 1, Len(lst) - 1)), lst[Len(lst)])

\* lines 96-103: keep the first record of every (bookId, page)
RECURSIVE Dedupe(_, _)
Dedupe(lst, seen) ==
    IF lst = <<>> THEN <<>>
    ELSE LET key == <<Head(lst).bookId, Head(lst).page>>
         IN  IF key \in seen THEN Dedupe(Tail(lst), seen)
             ELSE <<Head(lst)>> \o Dedupe(Tail(lst), seen \cup {key})

\* lines 94-104
SortAndDedupe(map) == [c \in DOMAIN map |-> Dedupe(SortRefs(map[c]), {})]

\* the name of the k-th folder: "c", "d", ...
FolderName(k) == <<98 + k>>

\* codex ids as they stand in a shortcode: "h", " h ", "v" and a blank one
IdHero == <<Run("h", 1)>>
IdHeroPadded == <<Run(SP, 1), Run("h", 1), Run(SP, 1)>>
IdVillain == <<Run("v", 1)>>
IdBlank == <<Run(SP, 2)>>

PageFile(st, ms) == [stem |-> st, matches |-> ms]

\* "1.html", "page1.html", "page2.html"
FilesWithDuplicates ==
    { PageFile(<<49>>, <<IdHero>>),
      PageFile(<<112, 97, 103, 101, 49>>, <<IdHeroPadded, IdHero, IdBlank>>),
      PageFile(<<112, 97, 103, 101, 50>>, <<IdVillain, IdHero>>) }

\* "index.html", "page-12.html", "page2.html"
FilesWithIndex ==
    { PageFile(<<105, 110, 100, 101, 120>>, <<IdHero>>),
      PageFile(<<112, 97, 103, 101, 45, 49, 50>>, <<IdHero>>),
      PageFile(<<112, 97, 103, 101, 50>>, <<IdHero, IdVillain>>) }

\* an entry of Books/ as the scanner sees it; id and title are the values
\* of meta.json, <<>> when the key is absent
ScanDir(d, m, bookId, title, hasPages, fs) ==
    [dir |-> d, meta |-> m, id |-> bookId, title |-> title,
     has_pages |-> hasPages, files |-> fs]

\* the titles "B", "a" and "A", and the id "i"
ScanDirs ==
    { ScanDir(FALSE, "missing", <<>>, <<>>, FALSE, {}),
      ScanDir(TRUE, "missing", <<>>, <<>>, TRUE, FilesWithIndex),
      ScanDir(TRUE, "malformed", <<>>, <<>>, TRUE, FilesWithIndex),
      ScanDir(TRUE, "notobject", <<>>, <<>>, TRUE, FilesWithIndex),
      ScanDir(TRUE, "ok", <<>>, <<66>>, FALSE, {}) }
    \cup { ScanDir(TRUE, "ok", bookId, title, TRUE, fs) :
             bookId \in {<<>>, <<105>>},
             title \in {<<>>, <<66>>, <<97>>, <<65>>},
             fs \in {FilesWithDuplicates, FilesWithIndex} }

ScanListings == UNION { [1..k -> ScanDirs] : k \in 0..MaxScanDirs }

RefsInit ==
    /\ PagerIdle
    /\ DriverIdle
    /\ ParseIdle
    /\ \/ refs_root = FALSE /\ scan_dirs = <<>>
       \/ refs_root = TRUE /\ scan_dirs \in ScanListings
    /\ scan_pos = 1
    /\ refs = <<>>
    /\ refs_json = NotWritten
    /\ refs_pc = "loop"

InScan ==
    /\ refs_pc = "loop"
    /\ refs_root
    /\ scan_pos <= Len(scan_dirs)

\* line 63: meta.get("id") or book_dir.name
BookId(k) == IF scan_dirs[k].id # <<>> THEN scan_dirs[k].id ELSE FolderName(k)

\* line 64: meta.get("title") or book_id
BookTitle(k) == IF scan_dirs[k].title # <<>> THEN scan_dirs[k].title ELSE BookId(k)

\* lines 41-43
RefsNoRoot ==
    /\ refs_pc = "loop"
    /\ ~refs_root
    /\ refs_pc' = "done"
    /\ UNCHANGED <<refs_root, scan_dirs, scan_pos, refs, refs_json>>
    /\ UNCHANGED <<pagerVars, driverVars, parseVars>>

\* lines 49-50
RefsSkipNotDir ==
    /\ InScan
    /\ ~scan_dirs[scan_pos].dir
    /\ scan_pos' = scan_pos + 1
    /\ UNCHANGED <<refs_root, scan_dirs, refs, refs_json, refs_pc>>
    /\ UNCHANGED <<pagerVars, driverVars, parseVars>>

\* lines 52-55
RefsSkipNoMeta ==
    /\ InScan
    /\ scan_dirs[scan_pos].dir
    /\ scan_dirs[scan_pos].meta = "missing"
    /\ scan_pos' = scan_pos + 1
    /\ UNCHANGED <<refs_root, scan_dirs, refs, refs_json, refs_pc>>
    /\ UNCHANGED <<pagerVars, driverVars, parseVars>>

\* lines 57-61: json.loads raises and the book is skipped
RefsSkipBadMeta ==
    /\ InScan
    /\ scan_dirs[scan_pos].dir
    /\ scan_dirs[scan_pos].meta = "malformed"
    /\ scan_pos' = scan_pos + 1
    /\ UNCHANGED <<refs_root, scan_dirs, refs, refs_json, refs_pc>>
    /\ UNCHANGED <<pagerVars, driverVars, parseVars>>

\* line 63: meta is not an object, meta.get raises outside the try
RefsMetaGetRaises ==
    /\ InScan
    /\ scan_dirs[scan_pos].dir
    /\ scan_dirs[scan_pos].meta = "notobject"
    /\ refs_pc' = "crashed"
    /\ UNCHANGED <<refs_root, scan_dirs, scan_pos, refs, refs_json>>
    /\ UNCHANGED <<pagerVars, driverVars, parseVars>>

\* lines 66-69
RefsSkipNoPages ==
    /\ InScan
    /\ scan_dirs[scan_pos].dir
    /\ scan_dirs[scan_pos].meta = "ok"
    /\ ~scan_dirs[scan_pos].has_pages
    /\ scan_pos' = scan_pos + 1
    /\ UNCHANGED <<refs_root, scan_dirs, refs, refs_json, refs_pc>>
    /\ UNCHANGED <<pagerVars, driverVars, parseVars>>

\* lines 71-91: scan the book's page files
RefsScanBook ==
    /\ InScan
    /\ scan_dirs[scan_pos].dir
    /\ scan_dirs[scan_pos].meta = "ok"
    /\ scan_dirs[scan_pos].has_pages
    /\ refs' = ScanFiles(refs, SortedFiles(scan_dirs[scan_pos].files),
                         BookId(scan_pos), BookTitle(scan_pos))
    /\ scan_pos' = scan_pos + 1
    /\ UNCHANGED <<refs_root, scan_dirs, refs_json, refs_pc>>
    /\ UNCHANGED <<pagerVars, driverVars, parseVars>>

\* lines 93-112: sort and dedupe every list, write references.json
RefsWrite ==
    /\ refs_pc = "loop"
    /\ refs_root
    /\ scan_pos > Len(scan_dirs)
    /\ refs' = SortAndDedupe(refs)
    /\ refs_json' = [written |-> TRUE, records |-> SortAndDedupe(refs)]
    /\ refs_pc' = "done"
    /\ UNCHANGED <<refs_root, scan_dirs, scan_pos>>
    /\ UNCHANGED <<pagerVars, driverVars, parseVars>>

RefsNext ==
    \/ RefsNoRoot
    \/ RefsSkipNotDir
    \/ RefsSkipNoMeta
    \/ RefsSkipBadMeta
    \/ RefsMetaGetRaises
    \/ RefsSkipNoPages
    \/ RefsScanBook
    \/ RefsWrite

SpecRefs == RefsInit /\ [][RefsNext]_vars

-----------------------------------------------------------------------------
(* parse_paragraphs, line by line *)

\* Most lines of a text the model splits
MaxLines == 4

\* lines of a manuscript: empty, blanks, a lone \r, the sentinel bare and
\* padded, content bare and padded, and a content line that spells the token
\* parse_paragraphs uses for a forced break
Lines ==
    { <<>>,
      << Run(SP, 2) >>,
      << Run(CR, 1) >>,
      SENTINEL,
      << Run(SP, 1) >> \o SENTINEL \o << Run(SP, 1), Run(CR, 1) >>,
      << Run("x", 1) >>,
      << Run(SP, 1), Run("x", 1), Run(SP, 1) >>,
      PAGE_BREAK }

\* text.split("\n") returns at least one line
Texts == UNION { [1..k -> Lines] : k \in 1..MaxLines }

ParseInit ==
    /\ PagerIdle
    /\ DriverIdle
    /\ RefsIdle
    /\ raw_lines \in Texts
    /\ line_pos = 1
    /\ parsed = <<>>
    /\ current_lines = <<>>
    /\ parse_pc = "loop"

InLines == parse_pc = "loop" /\ line_pos <= Len(raw_lines)

\* lines 91-97: a sentinel line
ParseSentinelLine ==
    /\ InLines
    /\ Strip(RStripCR(raw_lines[line_pos])) = SENTINEL
    /\ parsed' = Append(FlushLines(parsed, current_lines), PAGE_BREAK)
    /\ current_lines' = <<>>
    /\ line_pos' = line_pos + 1
    /\ UNCHANGED <<raw_lines, parse_pc>>
    /\ UNCHANGED <<pagerVars, driverVars, refsVars>>

\* lines 99-103: a blank line
ParseBlankLine ==
    /\ InLines
    /\ Strip(RStripCR(raw_lines[line_pos])) # SENTINEL
    /\ Strip(RStripCR(raw_lines[line_pos])) = <<>>
    /\ parsed' = FlushLines(parsed, current_lines)
    /\ current_lines' = <<>>
    /\ line_pos' = line_pos + 1
    /\ UNCHANGED <<raw_lines, parse_pc>>
    /\ UNCHANGED <<pagerVars, driverVars, refsVars>>

\* lines 104-105: any other line
ParseContentLine ==
    /\ InLines
    /\ Strip(RStripCR(raw_lines[line_pos])) # SENTINEL
    /\ Strip(RStripCR(raw_lines[line_pos])) # <<>>
    /\ current_lines' = Append(current_lines, RStripCR(raw_lines[line_pos]))
    /\ line_pos' = line_pos + 1
    /\ UNCHANGED <<raw_lines, parsed, parse_pc>>
    /\ UNCHANGED <<pagerVars, driverVars, refsVars>>

\* lines 107-110: the final flush and the return
ParseReturn ==
    /\ parse_pc = "loop"
    /\ line_pos > Len(raw_lines)
    /\ parsed' = FlushLines(parsed, current_lines)
    /\ parse_pc' = "done"
    /\ UNCHANGED <<raw_lines, line_pos, current_lines>>
    /\ UNCHANGED <<pagerVars, driverVars, refsVars>>

ParseNext ==
    \/ ParseSentinelLine
    \/ ParseBlankLine
    \/ ParseContentLine
    \/ ParseReturn

SpecParse == ParseInit /\ [][ParseNext]_vars

-----------------------------------------------------------------------------
(* Builds of one book, its manuscript edited between the runs *)

\* 1001 characters, a blank line and 450 characters: two pages
TextTwoPages ==
    << Run("x", TARGET_CHARS_PER_PAGE + 1), Run(NL, 2),
       Run("y", MIN_CHARS_PER_PAGE) >>

\* the states of manuscript.txt between the runs
Manuscripts ==
    { NoManuscript, Manuscript(TextOnePage), Manuscript(TextTwoPages),
      Manuscript(TextThreePages) }

\* a folder with a loadable meta.json
Books == { Entry(TRUE, "ok", h, ms) : h \in BOOLEAN, ms \in Manuscripts }

RebuildInit ==
    /\ PagerIdle
    /\ RefsIdle
    /\ ParseIdle
    /\ books_root = TRUE
    /\ listing \in [1..1 -> Books]
    /\ name_pos = 1
    /\ books_meta = <<>>
    /\ books_json = NotWritten
    /\ page_files = [k \in 1..1 |-> NoDir]
    /\ main_pc = "loop"

\* lines 264-267: after a run has ended the manuscript is replaced and
\* main() is run again; the files of the earlier run are on disk
EditAndRerun ==
    /\ main_pc = "done"
    /\ \E ms \in Manuscripts :
          /\ ms # listing[1].manuscript
          /\ listing' = [listing EXCEPT ![1].manuscript = ms]
    /\ name_pos' = 1
    /\ books_meta' = <<>>
    /\ main_pc' = "loop"
    /\ UNCHANGED <<books_root, books_json, page_files>>
    /\ UNCHANGED <<pagerVars, refsVars, parseVars>>

RebuildNext ==
    \/ ProcessBook
    \/ WriteCatalog
    \/ EditAndRerun

SpecRebuild == RebuildInit /\ [][RebuildNext]_vars

-----------------------------------------------------------------------------
(* Vocabulary of the properties *)

\* the input with the forced-break markers removed
ParasOf(seq) == SelectSeq(seq, LAMBDA e : e # PAGE_BREAK)

\* the paragraphs of a page: the page split at its blank-line separators
PageParas(page) == SplitBlank(page)

\* the paragraphs of all pages, in page order
RECURSIVE AllParas(_)
AllParas(pgs) ==
    IF pgs = <<>> THEN <<>> ELSE PageParas(Head(pgs)) \o AllParas(Tail(pgs))

RECURSIVE SumLen(_)
SumLen(parts) == IF parts = <<>> THEN 0 ELSE StrLen(Head(parts)) + SumLen(Tail(parts))

\* length of a page: its paragraphs' lengths, separators not counted
PageLength(page) == SumLen(PageParas(page))

\* number of paragraphs on the pages 1..k
RECURSIVE ParasUpTo(_, _)
ParasUpTo(pgs, k) ==
    IF k = 0 THEN 0 ELSE Len(PageParas(pgs[k])) + ParasUpTo(pgs, k - 1)

\* the page holding the j-th paragraph (0 when there is none)
PageOf(pgs, j) ==
    IF \E k \in 1..Len(pgs) : ParasUpTo(pgs, k) >= j
    THEN CHOOSE k \in 1..Len(pgs) :
            /\ ParasUpTo(pgs, k) >= j
            /\ ParasUpTo(pgs, k - 1) < j
    ELSE 0

\* number of paragraphs among the first m elements of the input
ParaIndex(m) == Len(ParasOf(SubSeq(paragraphs, 1, m)))

IsPara(m) == m \in 1..Len(paragraphs) /\ paragraphs[m] # PAGE_BREAK
IsMarker(m) == m \in 1..Len(paragraphs) /\ paragraphs[m] = PAGE_BREAK

\* a page that is a single paragraph and that paragraph is a heading
LoneHeading(page) ==
    Len(PageParas(page)) = 1 /\ IsHeading(PageParas(page)[1])

Done == pc = "done"

-----------------------------------------------------------------------------
\* C1: content preservation. Splitting every returned page at its blank-line
\* separators and concatenating the blocks in page order gives exactly the
\* input paragraphs without the markers: each paragraph whole, once, in order.
C1_ContentPreserved ==
    Done => AllParas(pages) = ParasOf(paragraphs)

\* a finished run of several pages whose input held a marker and a paragraph
\* longer than the budget, and where pages were merged on the way
C1_Witness ==
    /\ Done
    /\ Len(pages) >= 2
    /\ \E m \in 1..Len(paragraphs) : IsMarker(m)
    /\ \E m \in 1..Len(paragraphs) :
          IsPara(m) /\ StrLen(paragraphs[m]) > TARGET_CHARS_PER_PAGE
    /\ Len(ParasOf(paragraphs)) > Len(pages)

\* C2: after the repair loop no page other than the last one is heading-only.
C2_NoHeadingOnlyBeforeLast ==
    Done => \A k \in 1..(Len(pages) - 1) : ~LoneHeading(pages[k])

\* a finished run in which the repair loop merged a page and left several
C2_Witness ==
    /\ Done
    /\ Len(pages) >= 2
    /\ Len(pages) < initial_pages

\* C7: no page is ever empty, during packing and in the result; the result
\* has zero pages exactly when the input holds no paragraph.
C7_NoEmptyPage ==
    /\ \A k \in 1..Len(pages) :
          \A j \in 1..Len(PageParas(pages[k])) : PageParas(pages[k])[j] # <<>>
    /\ Done => (pages = <<>> <=> ParasOf(paragraphs) = <<>>)

\* a finished run of several pages whose input starts and ends with a marker
C7_Witness ==
    /\ Done
    /\ Len(pages) >= 2
    /\ IsMarker(1)
    /\ IsMarker(Len(paragraphs))

\* C8: a marker met while nothing is pending changes neither the completed
\* pages nor the pending units nor the pending length; an input of markers
\* only (or an empty input) gives zero pages.
C8_MarkerNoOp ==
    /\ [][(pc = "pack" /\ IsMarker(pos) /\ current = <<>>)
            => (pages' = pages /\ current' = current /\ current_len' = current_len)]_vars
    /\ [](Done /\ ParasOf(paragraphs) = <<>> => pages = <<>>)

\* a repeated marker has just been processed after some page was completed
C8_Witness ==
    /\ pc = "pack"
    /\ pos >= 4
    /\ IsMarker(pos - 1)
    /\ IsMarker(pos - 2)
    /\ Len(pages) = 1
    /\ current = <<>>

\* C9: the repair loop terminates: a merge shrinks the page count by exactly
\* one and keeps the cursor, every other iteration advances the cursor by one
\* and keeps the pages, so the distance Len(pages) - 1 - i drops by one each
\* time and the loop runs at most (initial page count) iterations.
C9_RepairTerminates ==
    [][(pc = "repair" /\ pc' = "repair")
         => /\ \/ (Len(pages') = Len(pages) - 1 /\ i' = i)
               \/ (pages' = pages /\ i' = i + 1)
            /\ (Len(pages') - 1 - i') = (Len(pages) - 1 - i) - 1
            /\ (Len(pages) - 1 - i) > 0
            /\ iterations' = iterations + 1
            /\ iterations' <= initial_pages]_vars

\* the loop has ended after merging and after advancing
C9_Witness ==
    /\ Done
    /\ initial_pages >= 3
    /\ Len(pages) < initial_pages
    /\ i >= 1
    /\ iterations = initial_pages - 1

-----------------------------------------------------------------------------
(* Forced breaks, headings and the budget *)

NumParas == Len(ParasOf(paragraphs))

\* a marker with a paragraph somewhere before it and one somewhere after it
BetweenParas(m) ==
    /\ IsMarker(m)
    /\ ParaIndex(m) >= 1
    /\ ParaIndex(m) < NumParas

\* the last paragraph before position m and the first one after it
ParaBefore(m) == ParasOf(paragraphs)[ParaIndex(m)]
ParaAfter(m) == ParasOf(paragraphs)[ParaIndex(m) + 1]

\* position in the input of the first paragraph after position m
NextParaPos(m) ==
    CHOOSE k \in (m + 1)..Len(paragraphs) :
        /\ IsPara(k)
        /\ \A j \in (m + 1)..(k - 1) : IsMarker(j)

SamePage(a, b) == PageOf(pages, a) = PageOf(pages, b)

\* the accumulation that reaches position k with length c meets a heading
\* next while it is still shorter than the orphan threshold
RECURSIVE EndsAsOrphan(_, _)
EndsAsOrphan(k, c) ==
    IF k > Len(paragraphs) \/ IsMarker(k) THEN FALSE
    ELSE IF IsHeading(paragraphs[k]) THEN c < MIN_CHARS_PER_PAGE
    ELSE IF c + StrLen(paragraphs[k]) > TARGET_CHARS_PER_PAGE THEN FALSE
    ELSE EndsAsOrphan(k + 1, c + StrLen(paragraphs[k]))

\* the accumulation opened by the first paragraph after marker m is an orphan
OrphanAfter(m) ==
    LET q == NextParaPos(m) IN EndsAsOrphan(q + 1, StrLen(paragraphs[q]))

\* C3 as stated: the paragraph before a marker and the paragraph after it
\* always lie on different pages of the returned sequence.
C3_BreakAlwaysSeparates ==
    Done => \A m \in 1..Len(paragraphs) :
                BetweenParas(m) => ~SamePage(ParaIndex(m), ParaIndex(m) + 1)

\* C3 amended: the paragraph before a marker and the paragraph after it lie
\* on different pages of the returned sequence, unless the paragraph before
\* the marker is a heading (the page the marker closed is a lone heading,
\* which the repair loop merges forward) or the content accumulated after the
\* marker is shorter than 450 characters when the next heading arrives (the
\* orphan rule merges it back into the page the marker closed).
C3_BreakSeparatesUnlessMerged ==
    Done => \A m \in 1..Len(paragraphs) :
                (BetweenParas(m) /\ SamePage(ParaIndex(m), ParaIndex(m) + 1))
                    => (IsHeading(ParaBefore(m)) \/ OrphanAfter(m))

\* a marker closed a page shorter than the orphan threshold and the page
\* stayed a page of its own in the result
C3_Witness ==
    /\ Done
    /\ \E m \in 1..Len(paragraphs) :
          /\ BetweenParas(m)
          /\ ~IsHeading(ParaBefore(m))
          /\ ~SamePage(ParaIndex(m), ParaIndex(m) + 1)
          /\ PageLength(pages[PageOf(pages, ParaIndex(m))]) < MIN_CHARS_PER_PAGE

\* C4: in the result every heading is followed, on its page, by at least one
\* more paragraph, except a heading that is the only paragraph of the last
\* page.
C4_HeadingFollowedByContent ==
    Done => \A k \in 1..Len(pages) :
              LET ps == PageParas(pages[k]) IN
              \A j \in 1..Len(ps) :
                 IsHeading(ps[j]) =>
                    \/ j < Len(ps)
                    \/ (k = Len(pages) /\ Len(ps) = 1)

\* C5: two headings adjacent in the input, followed by an ordinary paragraph,
\* end on one page together with that paragraph.
C5_ConsecutiveHeadingsOnePage ==
    Done => \A m \in 1..(Len(paragraphs) - 2) :
              ( /\ IsPara(m) /\ IsHeading(paragraphs[m])
                /\ IsPara(m + 1) /\ IsHeading(paragraphs[m + 1])
                /\ IsPara(m + 2) /\ ~IsHeading(paragraphs[m + 2]) )
              => ( /\ SamePage(ParaIndex(m), ParaIndex(m + 1))
                   /\ SamePage(ParaIndex(m + 1), ParaIndex(m + 2)) )

\* a page within the budget, or a single paragraph
WithinBudget(page) ==
    PageLength(page) > TARGET_CHARS_PER_PAGE => Len(PageParas(page)) = 1

\* the pages as the Packer leaves them
PackerPages == pc = "pack" \/ (pc = "repair" /\ iterations = 0)

\* C6 as stated: a page the Packer produced is longer than the budget only
\* when it is a single paragraph that is itself longer than the budget.
C6_SoftCap ==
    PackerPages => \A k \in 1..Len(pages) : WithinBudget(pages[k])

\* C6 amended: the budget is a soft cap on a page when the Packer completes
\* it: a newly completed page is longer than 1000 only when it is a single
\* paragraph; a completed page changes afterwards only when the orphan rule
\* appends the pending content, fewer than 450 characters, to the last
\* completed page at a heading.
C6_SoftCapOnFinalize ==
    [][pc = "pack" =>
         \/ pages' = pages
         \/ /\ Len(pages') = Len(pages) + 1
            /\ SubSeq(pages', 1, Len(pages)) = pages
            /\ WithinBudget(pages'[Len(pages')])
         \/ /\ Len(pages') = Len(pages)
            /\ Len(pages) > 0
            /\ SubSeq(pages', 1, Len(pages) - 1) = SubSeq(pages, 1, Len(pages) - 1)
            /\ IsPara(pos) /\ IsHeading(paragraphs[pos])
            /\ PageLength(pages'[Len(pages)]) - PageLength(pages[Len(pages)])
                  = current_len
            /\ current_len > 0
            /\ current_len < MIN_CHARS_PER_PAGE]_vars

\* after an orphan merge the last completed page holds several paragraphs
\* and is longer than the budget
C6_Witness ==
    /\ pc = "pack"
    /\ pages # <<>>
    /\ PageLength(pages[Len(pages)]) > TARGET_CHARS_PER_PAGE
    /\ Len(PageParas(pages[Len(pages)])) > 1

-----------------------------------------------------------------------------
(* The book build run *)

MainEnded == main_pc \in {"done", "crashed"}

\* the folders whose meta.json is a readable JSON object
GoodBooks == { k \in 1..Len(listing) : listing[k].dir /\ listing[k].meta = "ok" }

\* the folders whose meta.json is there but unreadable or invalid
BadMetaBooks ==
    { k \in 1..Len(listing) :
        listing[k].dir /\ listing[k].meta \in {"malformed", "notobject"} }

CatalogPaths == { books_json.records[j].path : j \in 1..Len(books_json.records) }

\* C10: when a book's meta.json is unreadable or invalid, that book is
\* skipped, the other books are still processed, and the run ends by writing
\* the catalog with the records of all successfully processed books.
C10_ErrorsAreBookScoped ==
    (MainEnded /\ books_root) => (books_json.written /\ CatalogPaths = GoodBooks)

\* the folder a record of the catalog belongs to
BookOf(rec) == listing[rec.path]

\* C11 as stated: a book lacking its manuscript or its metadata contributes
\* no record to the catalog.
C11_MissingInputNoRecord ==
    \A j \in 1..Len(books_meta) :
        /\ BookOf(books_meta[j]).meta # "missing"
        /\ BookOf(books_meta[j]).manuscript.present

\* C11 amended: a folder without meta.json is skipped and contributes no
\* record; a folder with metadata but without manuscript.txt gets no page
\* file written and still contributes a record, with totalPages 0; in both
\* cases main goes on with the next entry.
C11_MissingInputHandled ==
    /\ [][(InLoop /\ listing[name_pos].dir) =>
            /\ listing[name_pos].meta = "missing" =>
                  /\ books_meta' = books_meta
                  /\ page_files' = page_files
                  /\ name_pos' = name_pos + 1
                  /\ main_pc' = "loop"
            /\ (listing[name_pos].meta = "ok" /\ ~listing[name_pos].manuscript.present) =>
                  /\ books_meta' = Append(books_meta,
                                          [id |-> MetaRecord(name_pos, 0).id,
                                           path |-> name_pos,
                                           totalPages |-> 0])
                  /\ page_files'[name_pos].files = page_files[name_pos].files
                  /\ name_pos' = name_pos + 1
                  /\ main_pc' = "loop"]_vars
    /\ [](\A j \in 1..Len(books_meta) : BookOf(books_meta[j]).meta = "ok")

\* a run that ended with the catalog written, after a folder without
\* meta.json was skipped and a folder without manuscript was recorded
C11_Witness ==
    /\ main_pc = "done"
    /\ books_json.written
    /\ \E k \in 1..Len(listing) : listing[k].dir /\ listing[k].meta = "missing"
    /\ \E j \in 1..Len(books_json.records) :
          /\ ~BookOf(books_json.records[j]).manuscript.present
          /\ books_json.records[j].totalPages = 0
    /\ \E j \in 1..Len(books_json.records) :
          books_json.records[j].totalPages > 0

-----------------------------------------------------------------------------
(* The reference index *)

\* the folders the scanner reads page files from
Scanned ==
    { k \in 1..Len(scan_dirs) :
        scan_dirs[k].dir /\ scan_dirs[k].meta = "ok" /\ scan_dirs[k].has_pages }

\* the (bookId, page) pairs at which a shortcode of the id stands on a
\* scanned page file with a page number
Occurrences(cid) ==
    LET allFiles == UNION { scan_dirs[h].files : h \in Scanned }
        hits == { kf \in Scanned \X allFiles :
                    /\ kf[2] \in scan_dirs[kf[1]].files
                    /\ parse_page_number(kf[2].stem) # NoPage
                    /\ \E j \in 1..Len(kf[2].matches) : Strip(kf[2].matches[j]) = cid }
    IN  { <<BookId(kf[1]), parse_page_number(kf[2].stem)>> : kf \in hits }

IndexWritten == refs_pc = "done" /\ refs_json.written

\* C12: in the written reference index the list of every id (1) holds no two
\* records with the same (bookId, page), (2) is sorted ascending by
\* (lower-cased bookTitle, page), and (3) holds a record for every
\* (bookId, page) at which the id's shortcode occurs on a scanned page.
C12_IndexDedupedSortedComplete ==
    IndexWritten =>
        /\ \A cid \in DOMAIN refs_json.records :
             LET lst == refs_json.records[cid] IN
             /\ \A j, k \in 1..Len(lst) :
                   j < k => <<lst[j].bookId, lst[j].page>> # <<lst[k].bookId, lst[k].page>>
             /\ \A j, k \in 1..Len(lst) :
                   j < k =>
                     \/ LexLess(Lower(lst[j].bookTitle), Lower(lst[k].bookTitle))
                     \/ /\ Lower(lst[j].bookTitle) = Lower(lst[k].bookTitle)
                        /\ lst[j].page <= lst[k].page
             /\ \A occ \in Occurrences(cid) :
                   \E j \in 1..Len(lst) : <<lst[j].bookId, lst[j].page>> = occ
        /\ \A cid \in {IdHero, IdVillain} :
             Occurrences(cid) # {} => cid \in DOMAIN refs_json.records

\* an index was written in which an id has records of a book titled "a"
\* before records of a book titled "B", after a folder with two files of
\* the same page number was scanned
C12_Witness ==
    /\ IndexWritten
    /\ \E k \in Scanned : scan_dirs[k].files = FilesWithDuplicates
    /\ \E cid \in DOMAIN refs_json.records :
         LET lst == refs_json.records[cid] IN
         /\ Len(lst) >= 3
         /\ \E j, k \in 1..Len(lst) :
               j < k /\ lst[j].bookTitle = <<97>> /\ lst[k].bookTitle = <<66>>

-----------------------------------------------------------------------------
(* The Packer's rules *)

\* the Packer is about to process a heading / an ordinary paragraph
AtHeading == pc = "pack" /\ IsPara(pos) /\ IsHeading(paragraphs[pos])
AtOrdinary == pc = "pack" /\ IsPara(pos) /\ ~IsHeading(paragraphs[pos])

\* the step appends one page, made of exactly the pending paragraphs
PendingBecomesPage ==
    /\ Len(pages') = Len(pages) + 1
    /\ SubSeq(pages', 1, Len(pages)) = pages
    /\ PageParas(pages'[Len(pages')]) = current

\* the step appends the pending paragraphs to the last completed page
PendingJoinsLastPage ==
    /\ Len(pages') = Len(pages)
    /\ SubSeq(pages', 1, Len(pages) - 1) = SubSeq(pages, 1, Len(pages) - 1)
    /\ PageParas(pages'[Len(pages)]) = PageParas(pages[Len(pages)]) \o current

\* C13: orphan-merge rule. At a heading with pending content: if a completed
\* page exists and the pending length is below 450, the pending paragraphs
\* are appended to the last completed page and the page count stays;
\* otherwise the pending content becomes a new page. Either way the new
\* accumulation is the heading alone, with the heading's length.
C13_OrphanMergeRule ==
    [][(AtHeading /\ current # <<>>) =>
         /\ IF Len(pages) > 0 /\ current_len < MIN_CHARS_PER_PAGE
            THEN PendingJoinsLastPage
            ELSE PendingBecomesPage
         /\ current' = <<paragraphs[pos]>>
         /\ current_len' = StrLen(paragraphs[pos])]_vars

\* a heading has just been processed and the pending content went into the
\* only completed page, which is now over the budget
C13_Witness ==
    /\ pc = "pack"
    /\ pos > 2
    /\ IsHeading(paragraphs[pos - 1])
    /\ current = <<paragraphs[pos - 1]>>
    /\ Len(pages) = 1
    /\ Len(PageParas(pages[1])) >= 2
    /\ PageLength(pages[1]) > TARGET_CHARS_PER_PAGE

\* C14: in the pages the Packer has built, every heading is the first
\* paragraph of its page.
C14_HeadingStartsPage ==
    PackerPages =>
        \A k \in 1..Len(pages) :
            \A j \in 2..Len(PageParas(pages[k])) : ~IsHeading(PageParas(pages[k])[j])

\* the Packer's page list for an input
PackedPages(seq) == StepFlush(PackAll(PackerInit, seq)).pages

\* the repair pass with the cursor advanced after every merge
RECURSIVE RepairAdvancingFrom(_, _)
RepairAdvancingFrom(pg, k) ==
    IF k < Len(pg) - 1
    THEN IF Len(Blocks(pg[k + 1])) = 1 /\ IsHeading(Blocks(pg[k + 1])[1])
         THEN RepairAdvancingFrom(
                 DeleteAt([pg EXCEPT ![k + 1] = Cat(Cat(pg[k + 1], BlankLine), pg[k + 2])],
                          k + 2),
                 k + 1)
         ELSE RepairAdvancingFrom(pg, k + 1)
    ELSE pg

AdvancingResult == RepairAdvancingFrom(PackedPages(paragraphs), 0)

\* the Packer left two adjacent single-heading pages with a page after them
Cascade ==
    LET packed == PackedPages(paragraphs) IN
    \E k \in 1..(Len(packed) - 2) :
        LoneHeading(packed[k]) /\ LoneHeading(packed[k + 1])

CascadeRepaired ==
    /\ Done
    /\ Cascade
    /\ Len(pages) < initial_pages

\* C16: ordinary-paragraph rule. For a non-heading paragraph of length n and
\* pending length c: the pending content is completed as a page and the
\* paragraph starts the new accumulation iff content is pending and
\* c + n > 1000; otherwise the paragraph is appended and the pending length
\* becomes c + n.
C16_OrdinaryParagraphRule ==
    [][AtOrdinary =>
         LET n == StrLen(paragraphs[pos]) IN
         IF current # <<>> /\ current_len + n > TARGET_CHARS_PER_PAGE
         THEN /\ PendingBecomesPage
              /\ current' = <<paragraphs[pos]>>
              /\ current_len' = n
         ELSE /\ pages' = pages
              /\ current' = Append(current, paragraphs[pos])
              /\ current_len' = current_len + n]_vars

\* two paragraphs of together exactly 1000 characters are pending
C16_Witness ==
    /\ pc = "pack"
    /\ Len(current) = 2
    /\ current_len = TARGET_CHARS_PER_PAGE
    /\ SumLen(current) = TARGET_CHARS_PER_PAGE

\* input position of the j-th paragraph
PosOfPara(j) == CHOOSE m \in 1..Len(paragraphs) : IsPara(m) /\ ParaIndex(m) = j

\* page k begins with a heading
BeginsWithHeading(k) == IsHeading(PageParas(pages[k])[1])

\* a paragraph of page k stands directly before a marker in the input: a
\* forced break completed the page there
ClosedByMarker(k) ==
    \E j \in (ParasUpTo(pages, k - 1) + 1)..ParasUpTo(pages, k) :
        IsMarker(PosOfPara(j) + 1)

-----------------------------------------------------------------------------
(* The shape of the Splitter's output *)

\* the kind of a line, by its trimmed content
LineClass(l) ==
    IF Strip(RStripCR(l)) = SENTINEL THEN "sentinel"
    ELSE IF Strip(RStripCR(l)) = <<>> THEN "blank"
    ELSE "content"

IsContent(a) == LineClass(raw_lines[a]) = "content"
IsSentinel(a) == LineClass(raw_lines[a]) = "sentinel"

\* first lines of the maximal runs of content lines
RunStarts ==
    { a \in 1..Len(raw_lines) : IsContent(a) /\ (a = 1 \/ ~IsContent(a - 1)) }

\* last line of the run that starts at a
RunEnd(a) ==
    CHOOSE b \in a..Len(raw_lines) :
        /\ \A m \in a..b : IsContent(m)
        /\ b = Len(raw_lines) \/ ~IsContent(b + 1)

\* the text of the run that starts at a
RunText(a) ==
    Strip(JoinNL([m \in 1..(RunEnd(a) - a + 1) |-> RStripCR(raw_lines[a + m - 1])]))

\* the lines that make the Splitter emit: sentinel lines and run starts
Emitters == RunStarts \cup { a \in 1..Len(raw_lines) : IsSentinel(a) }

\* the k-th of them in source order
Emitter(k) == CHOOSE a \in Emitters : Cardinality({ b \in Emitters : b < a }) = k - 1

Markers == { k \in 1..Len(parsed) : parsed[k] = PAGE_BREAK }

Parsed == parse_pc = "done"

\* C17: the returned list holds, in source order, one element per sentinel
\* line and per maximal run of content lines; the element of a sentinel line
\* is the forced-break marker, the element of a run is its text, a
\* non-empty paragraph and not a marker; there are as many markers as
\* sentinel lines.
C17_SplitterShape ==
    Parsed =>
        /\ Len(parsed) = Cardinality(Emitters)
        /\ \A k \in 1..Len(parsed) :
              IF IsSentinel(Emitter(k))
              THEN parsed[k] = PAGE_BREAK
              ELSE parsed[k] = RunText(Emitter(k))
                   /\ parsed[k] # <<>>
                   /\ parsed[k] # PAGE_BREAK
        /\ Cardinality(Markers) = Cardinality({ a \in 1..Len(raw_lines) : IsSentinel(a) })

\* no run of content lines spells the token of the forced break
NoTokenText == \A a \in RunStarts : RunText(a) # PAGE_BREAK

\* the same shape on the texts without such a run
SplitterShapeWithoutTokenText ==
    (Parsed /\ NoTokenText) =>
        /\ Len(parsed) = Cardinality(Emitters)
        /\ \A k \in 1..Len(parsed) :
              IF IsSentinel(Emitter(k))
              THEN parsed[k] = PAGE_BREAK
              ELSE parsed[k] = RunText(Emitter(k)) /\ parsed[k] # <<>>
        /\ Cardinality(Markers) = Cardinality({ a \in 1..Len(raw_lines) : IsSentinel(a) })

\* the loop and the function parse_paragraphs return the same list
ParsedAsFunction == Parsed => parsed = ParseLines(raw_lines, <<>>, <<>>)

-----------------------------------------------------------------------------
(* The pages directory across builds *)

\* the pages of the manuscript the book has now
LatestPages(k) ==
    IF listing[k].manuscript.present
    THEN build_pages_from_paragraphs(
            parse_paragraphs(ReplaceCRLF(listing[k].manuscript.text)))
    ELSE <<>>

\* C19: when a build has ended, the pages directory of every recorded book
\* holds exactly the files 1..totalPages, file n holding page n of the
\* latest build.
C19_PagesDirIsLatestBuild ==
    (main_pc = "done" /\ books_json.written) =>
        \A j \in 1..Len(books_json.records) :
            LET rec == books_json.records[j]
                files == page_files[rec.path].files
            IN  /\ rec.totalPages = Len(LatestPages(rec.path))
                /\ DOMAIN files = 1..rec.totalPages
                /\ \A n \in DOMAIN files : files[n] = LatestPages(rec.path)[n]

====
